---------------------------- MODULE Spec2Model ----------------------------
(***************************************************************************)
(* A model of scripts/job_management/saga_cost_calculator.py: the          *)
(* extraction of '#SBATCH' directives from a job script, their             *)
(* normalisation to a resource record (hours, cpus, memory_gb,             *)
(* array_count) and the per-queue cost computed from that record.          *)
(*                                                                         *)
(* Text is a sequence of one-character strings.  Python values that may be *)
(* None or an exception are records: [tag |-> "None"],                     *)
(* [tag |-> "ok", val |-> v] and [tag |-> "raise", exc |-> e].             *)
(*                                                                         *)
(* Floating-point quantities are kept exactly, as integers in a stated     *)
(* unit: hours in 1/3600 h (seconds), memory in 1/10000 GiB (the four      *)
(* decimals round() keeps).                                                *)
(***************************************************************************)
EXTENDS Integers, Sequences, FiniteSets, TLC

VARIABLES pc, scriptlines, slurmargs, parsed_slurmargs, costs_per_queue,
          report, argument, result

vars == <<pc, scriptlines, slurmargs, parsed_slurmargs, costs_per_queue,
          report, argument, result>>

---------------------------------------------------------------------------
(* Python values *)

None == [tag |-> "None"]

Ok(v) == [tag |-> "ok", val |-> v]

Raise(e) == [tag |-> "raise", exc |-> e]

IsOk(r) == r.tag = "ok"

---------------------------------------------------------------------------
(* str: characters and the str methods the program calls *)

Digits == {"0", "1", "2", "3", "4", "5", "6", "7", "8", "9"}

DigitVal == [c \in Digits |->
               CASE c = "0" -> 0 [] c = "1" -> 1 [] c = "2" -> 2 [] c = "3" -> 3
                 [] c = "4" -> 4 [] c = "5" -> 5 [] c = "6" -> 6 [] c = "7" -> 7
                 [] c = "8" -> 8 [] c = "9" -> 9]

Whitespace == {" ", "\t", "\n"}

IsSpace(c) == c \in Whitespace

AllDigits(s) == \A i \in 1..Len(s) : s[i] \in Digits

RECURSIVE LStrip(_)
LStrip(s) == IF s # <<>> /\ IsSpace(Head(s)) THEN LStrip(Tail(s)) ELSE s

RECURSIVE RStrip(_)
RStrip(s) ==
    IF s # <<>> /\ IsSpace(s[Len(s)]) THEN RStrip(SubSeq(s, 1, Len(s) - 1)) ELSE s

\* str.strip()
Strip(s) == RStrip(LStrip(s))

\* str.find(c) for a one-character c: the first index (from 1), 0 when absent
Find(s, c) ==
    IF \E i \in 1..Len(s) : s[i] = c
    THEN CHOOSE i \in 1..Len(s) : s[i] = c /\ \A j \in 1..(i - 1) : s[j] # c
    ELSE 0

\* str.split(c, 1): one or two pieces
Split1(s, c) ==
    LET i == Find(s, c)
    IN  IF i = 0 THEN <<s>>
        ELSE <<SubSeq(s, 1, i - 1), SubSeq(s, i + 1, Len(s))>>

\* str.split(c): every piece
RECURSIVE Split(_, _)
Split(s, c) ==
    LET i == Find(s, c)
    IN  IF i = 0 THEN <<s>>
        ELSE <<SubSeq(s, 1, i - 1)>> \o Split(SubSeq(s, i + 1, Len(s)), c)

\* the decimal value of a run of digits
RECURSIVE DigitsValue(_)
DigitsValue(s) ==
    IF s = <<>> THEN 0
    ELSE 10 * DigitsValue(SubSeq(s, 1, Len(s) - 1)) + DigitVal[s[Len(s)]]

\* the digits of an int() literal once its underscores are checked and dropped:
\* a single underscore may stand between two digits, nowhere else
IntBody(s) ==
    /\ s # <<>>
    /\ \A i \in 1..Len(s) : s[i] \in Digits \cup {"_"}
    /\ s[1] \in Digits /\ s[Len(s)] \in Digits
    /\ \A i \in 1..(Len(s) - 1) : ~(s[i] = "_" /\ s[i + 1] = "_")

\* int(str): surrounding whitespace, an optional sign, digits; ValueError otherwise
int(s) ==
    LET t    == Strip(s)
        sgn  == IF t # <<>> /\ t[1] \in {"+", "-"} THEN t[1] ELSE ""
        body == IF sgn = "" THEN t ELSE Tail(t)
        digs == SelectSeq(body, LAMBDA c : c # "_")
    IN  IF IntBody(body)
        THEN Ok(IF sgn = "-" THEN 0 - DigitsValue(digs) ELSE DigitsValue(digs))
        ELSE Raise("ValueError")

\* `not x` for an optional string: None and the empty string are falsy
Falsy(x) == x.tag = "None" \/ (IsOk(x) /\ x.val = <<>>)

---------------------------------------------------------------------------
(* re.fullmatch for the patterns of parse_time_to_hours: a pattern is a     *)
(* sequence of literal characters and digit groups [min, max] (\d{m,n};     *)
(* \d+ is [1, MaxRun]).  A group is greedy: the longest run is tried first. *)

MaxRun == 64

Lit(c) == [kind |-> "lit", c |-> c]

Grp(lo, hi) == [kind |-> "grp", lo |-> lo, hi |-> hi]

NoMatch == [tag |-> "None"]

\* the length of the run of digits s starts with
RECURSIVE DigitRun(_)
DigitRun(s) == IF s # <<>> /\ Head(s) \in Digits THEN 1 + DigitRun(Tail(s)) ELSE 0

Min(a, b) == IF a <= b THEN a ELSE b

Max(a, b) == IF a >= b THEN a ELSE b

RECURSIVE FullMatch(_, _)
RECURSIVE FullMatchGroup(_, _, _)
\* the groups of the match of pattern p against the whole of s, or NoMatch
FullMatch(p, s) ==
    IF p = <<>> THEN (IF s = <<>> THEN Ok(<<>>) ELSE NoMatch)
    ELSE IF Head(p).kind = "lit"
         THEN IF s # <<>> /\ Head(s) = Head(p).c
              THEN FullMatch(Tail(p), Tail(s)) ELSE NoMatch
         ELSE FullMatchGroup(p, s, Min(Head(p).hi, DigitRun(s)))

\* the group at the head of p takes n digits; on failure it gives one back
FullMatchGroup(p, s, n) ==
    IF n < Head(p).lo THEN NoMatch
    ELSE LET rest == FullMatch(Tail(p), SubSeq(s, n + 1, Len(s)))
         IN  IF IsOk(rest) THEN Ok(<<SubSeq(s, 1, n)>> \o rest.val)
             ELSE FullMatchGroup(p, s, n - 1)

---------------------------------------------------------------------------
(* parse_slurmargs: the nested parsers *)

\* parse_argument_to_int(argument): None for a missing, empty or non-integer string
parse_argument_to_int(arg) ==
    IF Falsy(arg) THEN None
    ELSE LET v == int(arg.val) IN IF IsOk(v) THEN v ELSE None

\* the four patterns of parse_time_to_hours, in the order they are tried
PAT_DHHMMSS == <<Grp(1, MaxRun), Lit("-"), Grp(1, 2), Lit(":"), Grp(1, 2), Lit(":"), Grp(1, 2)>>

PAT_HHMMSS == <<Grp(1, MaxRun), Lit(":"), Grp(1, 2), Lit(":"), Grp(1, 2)>>

PAT_MMSS == <<Grp(1, MaxRun), Lit(":"), Grp(1, 2)>>

PAT_MM == <<Grp(1, MaxRun)>>

\* parse_time_to_hours with the MM:SS form read as HH:MM
parse_time_to_hours_mmss_as_hhmm(time_argument) ==
    IF Falsy(time_argument) THEN None
    ELSE LET timestring == Strip(time_argument.val)
             dhhmmss == FullMatch(PAT_DHHMMSS, timestring)
             hhmmss  == FullMatch(PAT_HHMMSS, timestring)
             mmss    == FullMatch(PAT_MMSS, timestring)
             mm      == FullMatch(PAT_MM, timestring)
             n(g, i) == DigitsValue(g.val[i])
         IN  IF IsOk(dhhmmss)
             THEN Ok(n(dhhmmss, 1) * 24 * 3600 + n(dhhmmss, 2) * 3600
                        + n(dhhmmss, 3) * 60 + n(dhhmmss, 4))
             ELSE IF IsOk(hhmmss)
             THEN Ok(n(hhmmss, 1) * 3600 + n(hhmmss, 2) * 60 + n(hhmmss, 3))
             ELSE IF IsOk(mmss)
             THEN Ok(n(mmss, 1) * 3600 + n(mmss, 2) * 60)
             ELSE IF IsOk(mm)
             THEN Ok(DigitsValue(timestring) * 60)
             ELSE None

\* parse_time_to_hours(time_argument), in seconds (1/3600 h):
\* days*24 + hours + minutes/60 + seconds/3600 and its shorter forms
parse_time_to_hours(time_argument) ==
    IF Falsy(time_argument) THEN None
    ELSE LET timestring == Strip(time_argument.val)
             dhhmmss == FullMatch(PAT_DHHMMSS, timestring)
             hhmmss  == FullMatch(PAT_HHMMSS, timestring)
             mmss    == FullMatch(PAT_MMSS, timestring)
             mm      == FullMatch(PAT_MM, timestring)
             n(g, i) == DigitsValue(g.val[i])
         IN  IF IsOk(dhhmmss)
             THEN Ok(n(dhhmmss, 1) * 24 * 3600 + n(dhhmmss, 2) * 3600
                        + n(dhhmmss, 3) * 60 + n(dhhmmss, 4))
             ELSE IF IsOk(hhmmss)
             THEN Ok(n(hhmmss, 1) * 3600 + n(hhmmss, 2) * 60 + n(hhmmss, 3))
             ELSE IF IsOk(mmss)
             THEN Ok(n(mmss, 1) * 60 + n(mmss, 2))
             ELSE IF IsOk(mm)
             THEN Ok(DigitsValue(timestring) * 60)
             ELSE None

UpperCase == <<"A", "B", "C", "D", "E", "F", "G", "H", "I", "J", "K", "L", "M",
               "N", "O", "P", "Q", "R", "S", "T", "U", "V", "W", "X", "Y", "Z">>

LowerCase == <<"a", "b", "c", "d", "e", "f", "g", "h", "i", "j", "k", "l", "m",
               "n", "o", "p", "q", "r", "s", "t", "u", "v", "w", "x", "y", "z">>

\* str.lower()
Lower(s) ==
    [i \in 1..Len(s) |->
        IF \E k \in 1..26 : UpperCase[k] = s[i]
        THEN LowerCase[CHOOSE k \in 1..26 : UpperCase[k] = s[i]]
        ELSE s[i]]

\* the unit alternatives of the memory pattern: [kmgt](?:i?b)?|
MemUnits ==
    {<<>>} \cup UNION {{<<u>>, <<u, "b">>, <<u, "i", "b">>} : u \in {"k", "m", "g", "t"}}

\* re.fullmatch(r'(?i)\s*(\d+(?:\.\d+)?)\s*([kmgt](?:i?b)?|)\s*', memstring):
\* the two groups (number, unit), or NoMatch
MemMatch(memstring) ==
    LET s     == LStrip(memstring)
        n1    == DigitRun(s)
        afterInt == SubSeq(s, n1 + 1, Len(s))
        n2    == IF afterInt # <<>> /\ Head(afterInt) = "." THEN DigitRun(Tail(afterInt)) ELSE 0
        nlen  == IF n2 >= 1 THEN n1 + 1 + n2 ELSE n1
        unit  == RStrip(LStrip(SubSeq(s, nlen + 1, Len(s))))
    IN  IF n1 >= 1 /\ Lower(unit) \in MemUnits
        THEN Ok(<<SubSeq(s, 1, nlen), unit>>)
        ELSE NoMatch

BYTES_IN_KILOBYTE == 1024

\* round(num / den, 0) for num >= 0, den > 0: to nearest, a tie to the even integer
RoundHalfEven(num, den) ==
    LET q == num \div den
        r == num % den
    IN  IF 2 * r < den THEN q
        ELSE IF 2 * r > den THEN q + 1
        ELSE IF q % 2 = 0 THEN q ELSE q + 1

\* round(amount * BYTES_IN_KILOBYTE ** e / BYTES_IN_KILOBYTE ** 3, 4), in 1/10000 GiB
RoundGiB4(amount, e) ==
    CASE e = 1 -> RoundHalfEven(amount * 10000, BYTES_IN_KILOBYTE * BYTES_IN_KILOBYTE)
      [] e = 2 -> RoundHalfEven(amount * 10000, BYTES_IN_KILOBYTE)
      [] e = 3 -> amount * 10000
      [] e = 4 -> amount * BYTES_IN_KILOBYTE * 10000

\* parse_mem_to_gigabytes(memory_argument), in 1/10000 GiB
parse_mem_to_gigabytes(memory_argument) ==
    IF Falsy(memory_argument) THEN None
    ELSE LET memstring == Strip(memory_argument.val)
             memargs   == MemMatch(memstring)
         IN  IF ~IsOk(memargs) THEN None
             ELSE LET unit   == Lower(memargs.val[2])
                      amount == int(memargs.val[1])
                  IN  IF ~IsOk(amount) THEN amount
                      ELSE IF unit \in {<<"k">>, <<"k", "b">>, <<"g", "i", "b">>}
                      THEN Ok(RoundGiB4(amount.val, 1))
                      ELSE IF unit \in {<<"m">>, <<"m", "b">>, <<"g", "i", "b">>}
                      THEN Ok(RoundGiB4(amount.val, 2))
                      ELSE IF unit \in {<<"g">>, <<"g", "b">>, <<"g", "i", "b">>}
                      THEN Ok(RoundGiB4(amount.val, 3))
                      ELSE IF unit \in {<<"t">>, <<"t", "b">>, <<"g", "i", "b">>}
                      THEN Ok(RoundGiB4(amount.val, 4))
                      ELSE None

\* ArrayPart with the step of a range ignored
ArrayPart_step_ignored(rawpart) ==
    LET stripped == Strip(rawpart)
        part     == Split1(stripped, "%")[1]
    IN  IF stripped = <<>> THEN Ok(0)
        ELSE IF Find(part, "-") # 0
        THEN LET pieces   == Split1(part, ":")
                 rng      == pieces[1]
                 step_str == IF Len(pieces) = 2 THEN pieces[2] ELSE <<"1">>
                 ends     == Split1(rng, "-")
             IN  IF Len(ends) # 2 THEN Raise("ValueError")
                 ELSE LET start == int(ends[1])
                          end   == int(ends[2])
                          step0 == int(step_str)
                      IN  IF ~IsOk(start) THEN start
                          ELSE IF ~IsOk(end) THEN end
                          ELSE IF ~IsOk(step0) THEN step0
                          ELSE IF end.val < start.val THEN Ok(1)
                          ELSE Ok((end.val - start.val) + 1)
        ELSE LET single == int(part)
             IN  IF IsOk(single) THEN Ok(1) ELSE single

\* ArrayPart with an item that is no integer skipped instead of raising
ArrayPart_bad_item_skipped(rawpart) ==
    LET stripped == Strip(rawpart)
        part     == Split1(stripped, "%")[1]
    IN  IF stripped = <<>> THEN Ok(0)
        ELSE IF Find(part, "-") # 0
        THEN LET pieces   == Split1(part, ":")
                 rng      == pieces[1]
                 step_str == IF Len(pieces) = 2 THEN pieces[2] ELSE <<"1">>
                 ends     == Split1(rng, "-")
             IN  IF Len(ends) # 2 THEN Raise("ValueError")
                 ELSE LET start == int(ends[1])
                          end   == int(ends[2])
                          step0 == int(step_str)
                      IN  IF ~IsOk(start) THEN start
                          ELSE IF ~IsOk(end) THEN end
                          ELSE IF ~IsOk(step0) THEN step0
                          ELSE LET step == IF step0.val <= 0 THEN 1 ELSE step0.val
                               IN  IF end.val < start.val THEN Ok(1)
                                   ELSE Ok(((end.val - start.val) \div step) + 1)
        ELSE LET single == int(part)
             IN  IF IsOk(single) THEN Ok(1) ELSE Ok(0)

\* one item of the array spec (the body of the for loop): the count it adds,
\* Ok(0) for an empty item that is skipped, or the exception it raises
ArrayPart(rawpart) ==
    LET stripped == Strip(rawpart)
        part     == Split1(stripped, "%")[1]
    IN  IF stripped = <<>> THEN Ok(0)
        ELSE IF Find(part, "-") # 0
        THEN LET pieces   == Split1(part, ":")
                 rng      == pieces[1]
                 step_str == IF Len(pieces) = 2 THEN pieces[2] ELSE <<"1">>
                 ends     == Split1(rng, "-")
             IN  IF Len(ends) # 2 THEN Raise("ValueError")
                 ELSE LET start == int(ends[1])
                          end   == int(ends[2])
                          step0 == int(step_str)
                      IN  IF ~IsOk(start) THEN start
                          ELSE IF ~IsOk(end) THEN end
                          ELSE IF ~IsOk(step0) THEN step0
                          ELSE LET step == IF step0.val <= 0 THEN 1 ELSE step0.val
                               IN  IF end.val < start.val THEN Ok(1)
                                   ELSE Ok(((end.val - start.val) \div step) + 1)
        ELSE LET single == int(part)
             IN  IF IsOk(single) THEN Ok(1) ELSE single

\* the for loop over spec.split(','): the total, or the first exception raised
RECURSIVE ArrayLoop(_, _)
ArrayLoop(parts, total) ==
    IF parts = <<>> THEN Ok(total)
    ELSE LET c == ArrayPart(Head(parts))
         IN  IF IsOk(c) THEN ArrayLoop(Tail(parts), total + c.val) ELSE c

\* parse_array_count(array_spec): `except Exception: return 1`
parse_array_count(array_spec) ==
    IF Falsy(array_spec) THEN Ok(1)
    ELSE LET spec == Strip(array_spec.val)
             loop == ArrayLoop(Split(spec, ","), 0)
         IN  IF ~IsOk(loop) THEN Ok(1)
             ELSE IF loop.val > 0 THEN loop ELSE Ok(1)

---------------------------------------------------------------------------
(* Inputs *)

\* every string over an alphabet, up to a length
Strings(alphabet, n) == UNION {[1..k -> alphabet] : k \in 0..n}

\* str(n) for n >= 0
RECURSIVE Dec(_)
Dec(n) ==
    LET d == CHOOSE c \in Digits : DigitVal[c] = n % 10
    IN  IF n < 10 THEN <<d>> ELSE Dec(n \div 10) \o <<d>>

Upper(c) ==
    IF \E k \in 1..26 : LowerCase[k] = c
    THEN UpperCase[CHOOSE k \in 1..26 : LowerCase[k] = c]
    ELSE c

\* a lower-case word in every mix of letter cases
RECURSIVE CaseVariants(_)
CaseVariants(u) ==
    IF u = <<>> THEN {<<>>}
    ELSE {<<c>> \o r : c \in {Head(u), Upper(Head(u))}, r \in CaseVariants(Tail(u))}

Idle ==
    /\ scriptlines = <<>>
    /\ slurmargs = None
    /\ parsed_slurmargs = None
    /\ costs_per_queue = None
    /\ report = None

---------------------------------------------------------------------------
(* parse_time_to_hours on every short string over the characters of a time *)

MaxTimeLen == 7

TimeAlphabet == {"1", "9", ":", "-", " "}

InitTime ==
    /\ pc = "call"
    /\ argument \in {None} \cup {Ok(s) : s \in Strings(TimeAlphabet, MaxTimeLen)}
    /\ result = None
    /\ Idle

CallParseTime ==
    /\ pc = "call"
    /\ result' = parse_time_to_hours(argument)
    /\ pc' = "return"
    /\ UNCHANGED <<scriptlines, slurmargs, parsed_slurmargs, costs_per_queue, report, argument>>

SpecTime == InitTime /\ [][CallParseTime]_vars

\* a field of a time string: 1 to maxlen digits
NumField(f, maxlen) == f # <<>> /\ AllDigits(f) /\ Len(f) <= maxlen

\* the positions at which t splits into D-HH:MM:SS, HH:MM:SS and MM:SS, the
\* leading field of the last two being at most `lead` digits
SplitsDHMS(t) ==
    {p \in (1..Len(t)) \X (1..Len(t)) \X (1..Len(t)) :
        /\ p[1] < p[2] /\ p[2] < p[3]
        /\ t[p[1]] = "-" /\ t[p[2]] = ":" /\ t[p[3]] = ":"
        /\ NumField(SubSeq(t, 1, p[1] - 1), Len(t))
        /\ NumField(SubSeq(t, p[1] + 1, p[2] - 1), 2)
        /\ NumField(SubSeq(t, p[2] + 1, p[3] - 1), 2)
        /\ NumField(SubSeq(t, p[3] + 1, Len(t)), 2)}

SplitsHMS(t, lead) ==
    {p \in (1..Len(t)) \X (1..Len(t)) :
        /\ p[1] < p[2]
        /\ t[p[1]] = ":" /\ t[p[2]] = ":"
        /\ NumField(SubSeq(t, 1, p[1] - 1), lead)
        /\ NumField(SubSeq(t, p[1] + 1, p[2] - 1), 2)
        /\ NumField(SubSeq(t, p[2] + 1, Len(t)), 2)}

SplitsMS(t, lead) ==
    {i \in 1..Len(t) :
        /\ t[i] = ":"
        /\ NumField(SubSeq(t, 1, i - 1), lead)
        /\ NumField(SubSeq(t, i + 1, Len(t)), 2)}

\* what the four forms, tried in order, give for t (in seconds), None when none fits
FormsValue(t, lead) ==
    LET v(a, b) == DigitsValue(SubSeq(t, a, b))
    IN  IF SplitsDHMS(t) # {}
        THEN LET p == CHOOSE q \in SplitsDHMS(t) : TRUE
             IN  Ok(3600 * (v(1, p[1] - 1) * 24 + v(p[1] + 1, p[2] - 1))
                      + 60 * v(p[2] + 1, p[3] - 1) + v(p[3] + 1, Len(t)))
        ELSE IF SplitsHMS(t, lead) # {}
        THEN LET p == CHOOSE q \in SplitsHMS(t, lead) : TRUE
             IN  Ok(3600 * v(1, p[1] - 1) + 60 * v(p[1] + 1, p[2] - 1) + v(p[2] + 1, Len(t)))
        ELSE IF SplitsMS(t, lead) # {}
        THEN LET i == CHOOSE q \in SplitsMS(t, lead) : TRUE
             IN  Ok(60 * v(1, i - 1) + v(i + 1, Len(t)))
        ELSE IF NumField(t, Len(t))
        THEN Ok(60 * DigitsValue(t))
        ELSE None

\* C3 as stated: for every time string the result is the value of the first of
\* D-HH:MM:SS, HH:MM:SS, MM:SS, integer that matches the whole string (read
\* leniently: the string as the parser strips it), every hour, minute and
\* second field being 1 to 2 digits; unparsable otherwise.
C3_AsStated ==
    (pc = "return" /\ IsOk(argument)) => result = FormsValue(Strip(argument.val), 2)

\* C3 amended: the forms are matched against the string with its surrounding
\* whitespace stripped, and the leading field of each form (days; the hours of
\* HH:MM:SS; the minutes of MM:SS; the bare integer) is one or more digits, only
\* the fields after it being 1 to 2 digits, of any value (99 minutes is legal).
C3_TimeForms ==
    (pc = "return" /\ IsOk(argument)) =>
        result = FormsValue(Strip(argument.val), Len(argument.val))

\* C3 witness: a string whose leading field has three digits and whose last
\* field is 99 (beyond 59) was parsed to a value
C3_Witness ==
    /\ pc = "return"
    /\ IsOk(argument) /\ IsOk(result)
    /\ DigitRun(argument.val) = 3
    /\ Len(argument.val) > 5
    /\ SubSeq(argument.val, Len(argument.val) - 2, Len(argument.val)) = <<":", "9", "9">>

---------------------------------------------------------------------------
(* parse_mem_to_gigabytes on amounts with every unit spelling, and on every *)
(* short string over a few characters of a memory value                     *)

MaxMemLen == 3

MemAlphabet == {"1", ".", "g", "b", " "}

\* amounts as <<integer part, fraction digits>>
MemAmounts ==
    {<<0, <<>>>>, <<1, <<>>>>, <<16, <<>>>>, <<200, <<>>>>, <<1, <<"5">>>>, <<16, <<"2", "5">>>>}

AmountText(a) == Dec(a[1]) \o (IF a[2] = <<>> THEN <<>> ELSE <<".">> \o a[2])

\* the units of the documentation: K/M/G/T, KB/MB/GB/TB, KiB/MiB/GiB/TiB
DocumentedUnits ==
    UNION {{<<u>>, <<u, "b">>, <<u, "i", "b">>} : u \in {"k", "m", "g", "t"}}

UnitSpellings == UNION {CaseVariants(u) : u \in DocumentedUnits}

MemInputs ==
    {AmountText(a) \o sp \o u :
        a \in MemAmounts, sp \in {<<>>, <<" ">>}, u \in UnitSpellings \cup {<<>>}}
    \cup Strings(MemAlphabet, MaxMemLen)
    \cup {<<"1", "6", "0", "0", "0">>, <<"3", "2", "7", "6", "8", "K">>}

InitMem ==
    /\ pc = "call"
    /\ argument \in {None} \cup {Ok(s) : s \in MemInputs}
    /\ result = None
    /\ Idle

CallParseMem ==
    /\ pc = "call"
    /\ result' = parse_mem_to_gigabytes(argument)
    /\ pc' = "return"
    /\ UNCHANGED <<scriptlines, slurmargs, parsed_slurmargs, costs_per_queue, report, argument>>

SpecMem == InitMem /\ [][CallParseMem]_vars

\* the amount in 1/1000
AmountMilli(a) ==
    a[1] * 1000 + (IF a[2] = <<>> THEN 0
                   ELSE IF Len(a[2]) = 1 THEN 100 * DigitsValue(a[2])
                   ELSE 10 * DigitsValue(a[2]))

\* the family of a unit, by its first letter: k 1, m 2, g 3, t 4
UnitFamily(u) ==
    LET c == Lower(u)[1]
    IN  CASE c = "k" -> 1 [] c = "m" -> 2 [] c = "g" -> 3 [] c = "t" -> 4

\* amount * 1024^(i-3) rounded to 4 decimals, in 1/10000 GiB
ExpectedGiB4(a, i) ==
    CASE i = 1 -> RoundHalfEven(AmountMilli(a) * 10, 1024 * 1024)
      [] i = 2 -> RoundHalfEven(AmountMilli(a) * 10, 1024)
      [] i = 3 -> AmountMilli(a) * 10
      [] i = 4 -> AmountMilli(a) * 10 * 1024

\* C4 as stated: for every amount and every unit k, kb, kib, m, mb, mib, g,
\* gb, gib, t, tb, tib in any letter case, parse_mem_to_gigabytes returns
\* amount * 1024^(i-3) rounded to 4 decimals, i being the family of the unit's
\* first letter.
C4_AsStated ==
    pc = "return" =>
        \A a \in MemAmounts, u \in UnitSpellings :
            argument = Ok(AmountText(a) \o u) =>
                result = Ok(ExpectedGiB4(a, UnitFamily(u)))

\* <number><unit>: an integer or a decimal, then no unit or a documented one
MemGrammar(s) ==
    \E n \in 1..Len(s) :
        /\ LET num == SubSeq(s, 1, n)
               dot == Find(num, ".")
           IN  IF dot = 0 THEN AllDigits(num)
               ELSE /\ NumField(SubSeq(num, 1, dot - 1), Len(s))
                    /\ NumField(SubSeq(num, dot + 1, n), Len(s))
        /\ Lower(SubSeq(s, n + 1, Len(s))) \in DocumentedUnits \cup {<<>>}

\* C5 as stated: for every input string parse_mem_to_gigabytes never raises; it
\* returns a number when the string matches <number><unit> (a decimal and a
\* missing unit included), and None when the string does not match that grammar
\* (nothing is asked here of a string that matches it once its blanks are
\* removed).
C5_AsStated ==
    (pc = "return" /\ IsOk(argument)) =>
        /\ result.tag # "raise"
        /\ MemGrammar(argument.val) => IsOk(result)
        /\ ~MemGrammar(SelectSeq(argument.val, LAMBDA c : ~IsSpace(c))) => result = None

---------------------------------------------------------------------------
(* parse_array_count on every short string over the characters of an array  *)
(* spec, and on the documented examples                                     *)

MaxArrayLen == 5

ArrayAlphabet == {"0", "3", ",", "-", ":", "%", "a"}

ArrayExamples ==
    { <<"0", "-", "9", "9", "%", "1", "0">>,
      <<"1", ",", "4", "-", "8", ",", "1", "0", "-", "2", "0", ":", "5", "%", "2">>,
      <<"a", "b", "c", "-", "5">>,
      <<"1", ",", "3", ",", "5">>,
      <<"1", "-", "1", "0", ":", "2">>,
      <<"1", "-", "5", ":", "-", "2">>,
      <<"7", "-", "2", ",", "0", "-", "9">>,
      <<"3", ",", "1", " ", "-", "5">>,
      <<" ", "1", ",", " ", "2", " ">>,
      <<"0", "-", "9", ",", "a", "b", "c", "-", "5">>,
      <<"0", "-", "9", ",", "1", "-", "2", "-", "3">>,
      <<"0", "-", "9", ",", "1", "-", "5", ":", "x">> }

InitArray ==
    /\ pc = "call"
    /\ argument \in {None} \cup {Ok(s) : s \in Strings(ArrayAlphabet, MaxArrayLen) \cup ArrayExamples}
    /\ result = None
    /\ Idle

CallParseArray ==
    /\ pc = "call"
    /\ result' = parse_array_count(argument)
    /\ pc' = "return"
    /\ UNCHANGED <<scriptlines, slurmargs, parsed_slurmargs, costs_per_queue, report, argument>>

SpecArray == InitArray /\ [][CallParseArray]_vars

\* digits, or digits after a minus sign (a step may be written negative)
SignedField(f) ==
    NumField(f, Len(f)) \/ (f # <<>> /\ Head(f) = "-" /\ NumField(Tail(f), Len(f)))

SignedValue(f) == IF Head(f) = "-" THEN 0 - DigitsValue(Tail(f)) ELSE DigitsValue(f)

\* the ways to read an item as start-end[:step][%N] with start and end
\* non-negative integers: <<start, end, step>>
RangeReadings(item) ==
    LET n == Len(item)
    IN  {<<DigitsValue(SubSeq(item, 1, d - 1)), DigitsValue(SubSeq(item, d + 1, e)),
           IF e < c - 1 THEN SignedValue(SubSeq(item, e + 2, c - 1)) ELSE 1>> :
            <<d, e, c>> \in
              {q \in (1..n) \X (1..n) \X (1..(n + 1)) :
                 /\ item[q[1]] = "-"
                 /\ q[1] < q[2] + 1 /\ q[2] < q[3]
                 /\ NumField(SubSeq(item, 1, q[1] - 1), n)
                 /\ NumField(SubSeq(item, q[1] + 1, q[2]), n)
                 /\ \/ q[2] = q[3] - 1
                    \/ /\ item[q[2] + 1] = ":"
                       /\ SignedField(SubSeq(item, q[2] + 2, q[3] - 1))
                 /\ \/ q[3] = n + 1
                    \/ item[q[3]] = "%" /\ NumField(SubSeq(item, q[3] + 1, n), n)}}

\* an item that is a single non-negative integer with an optional %N
SingleItem(item) ==
    \E e \in 1..Len(item) :
        /\ NumField(SubSeq(item, 1, e), Len(item))
        /\ \/ e = Len(item)
           \/ item[e + 1] = "%" /\ NumField(SubSeq(item, e + 2, Len(item)), Len(item))

WellFormedItem(item) == SingleItem(item) \/ RangeReadings(item) # {}

\* the number of tasks the claim gives a well-formed item
ItemCount(item) ==
    IF SingleItem(item) THEN 1
    ELSE LET r    == CHOOSE q \in RangeReadings(item) : TRUE
             step == IF r[3] <= 0 THEN 1 ELSE r[3]
         IN  IF r[2] < r[1] THEN 1 ELSE ((r[2] - r[1]) \div step) + 1

RECURSIVE SumCounts(_)
SumCounts(items) ==
    IF items = <<>> THEN 0 ELSE ItemCount(Head(items)) + SumCounts(Tail(items))

WellFormedSpec(s) ==
    \A i \in 1..Len(Split(s, ",")) : WellFormedItem(Split(s, ",")[i])

\* C8: for a well-formed array spec (comma-separated items, each an integer or
\* start-end with an optional :step and an optional %N) parse_array_count
\* returns the sum of 1 per integer, floor((end-start)/step)+1 per range with
\* end >= start (a step <= 0 taken as 1) and 1 per reversed range; %N never
\* changes the count.
C8_ArrayCount ==
    (pc = "return" /\ IsOk(argument) /\ WellFormedSpec(argument.val)) =>
        result = Ok(SumCounts(Split(argument.val, ",")))

\* C8 witness: the documented mixed spec 1,4-8,10-20:5%2 was counted as 9
C8_Witness ==
    /\ pc = "return"
    /\ argument = Ok(<<"1", ",", "4", "-", "8", ",", "1", "0", "-", "2", "0", ":", "5", "%", "2">>)
    /\ WellFormedSpec(argument.val)
    /\ result = Ok(9)

\* an integer literal as int() reads it: blanks, an optional sign, digits
IntLiteral(f) ==
    LET t == Strip(f)
    IN  \/ NumField(t, Len(t))
        \/ t # <<>> /\ Head(t) \in {"+", "-"} /\ NumField(Tail(t), Len(t))

\* an item (its %throttle dropped) that is neither an integer literal nor, for
\* any choice of its '-' and ':', start-end or start-end:step of such literals
ItemFails(item) ==
    LET core == SubSeq(item, 1, IF Find(item, "%") = 0 THEN Len(item) ELSE Find(item, "%") - 1)
        n    == Len(core)
    IN  /\ ~IntLiteral(core)
        /\ ~\E d \in 1..n :
              /\ core[d] = "-"
              /\ IntLiteral(SubSeq(core, 1, d - 1))
              /\ \/ IntLiteral(SubSeq(core, d + 1, n))
                 \/ \E c \in (d + 1)..n :
                       /\ core[c] = ":"
                       /\ IntLiteral(SubSeq(core, d + 1, c - 1))
                       /\ IntLiteral(SubSeq(core, c + 1, n))

\* the items of a spec: its comma-separated pieces, stripped, the empty ones dropped
SpecItems(s) ==
    {Strip(Split(s, ",")[i]) : i \in 1..Len(Split(s, ","))} \ {<<>>}

\* C9: for every array spec parse_array_count does not raise and returns an
\* integer >= 1; it returns exactly 1 for an absent or empty spec and for a
\* spec with at least one item that fails to parse, whatever its other items.
C9_ArrayDegrades ==
    pc = "return" =>
        /\ IsOk(result)
        /\ result.val >= 1
        /\ Falsy(argument) => result.val = 1
        /\ (IsOk(argument) /\ \E item \in SpecItems(argument.val) : ItemFails(item))
              => result.val = 1

\* C9 witness: a spec with a valid ten-task range and a malformed item gave 1
C9_Witness ==
    /\ pc = "return"
    /\ argument = Ok(<<"0", "-", "9", ",", "a", "b", "c", "-", "5">>)
    /\ \E item \in SpecItems(argument.val) : ItemFails(item)
    /\ \E item \in SpecItems(argument.val) : ~ItemFails(item)
    /\ result = Ok(1)

---------------------------------------------------------------------------
(* Exact arithmetic for the cost figures.  A cost is an integer count of     *)
(* CostUnit-ths of a CPU-hour, CostUnit = 3600 * 10^12: seconds times        *)
(* 1/10000 GiB times a queue factor given in 1/10^8.  Such counts exceed     *)
(* the integers of the checker, so a count is a record [neg, mag], mag the   *)
(* little-endian digits in base 10^4 without leading zeros.                  *)

Base == 10000

\* the digits of n >= 0
RECURSIVE BigOf(_)
BigOf(n) == IF n = 0 THEN <<>> ELSE <<n % Base>> \o BigOf(n \div Base)

RECURSIVE BigTrim(_)
BigTrim(a) ==
    IF a # <<>> /\ a[Len(a)] = 0 THEN BigTrim(SubSeq(a, 1, Len(a) - 1)) ELSE a

RECURSIVE BigAddC(_, _, _)
BigAddC(a, b, carry) ==
    IF a = <<>> /\ b = <<>> THEN (IF carry = 0 THEN <<>> ELSE <<carry>>)
    ELSE LET x == IF a = <<>> THEN 0 ELSE Head(a)
             y == IF b = <<>> THEN 0 ELSE Head(b)
             t == x + y + carry
         IN  <<t % Base>> \o BigAddC(IF a = <<>> THEN a ELSE Tail(a),
                                     IF b = <<>> THEN b ELSE Tail(b), t \div Base)

RECURSIVE BigMulDigit(_, _, _)
BigMulDigit(a, d, carry) ==
    IF a = <<>> THEN (IF carry = 0 THEN <<>> ELSE <<carry>>)
    ELSE LET t == Head(a) * d + carry
         IN  <<t % Base>> \o BigMulDigit(Tail(a), d, t \div Base)

RECURSIVE BigMul(_, _)
BigMul(a, b) ==
    IF a = <<>> \/ b = <<>> THEN <<>>
    ELSE BigTrim(BigAddC(BigMulDigit(a, Head(b), 0), <<0>> \o BigMul(a, Tail(b)), 0))

\* a < b for digit sequences without leading zeros
RECURSIVE BigLess(_, _)
BigLess(a, b) ==
    IF Len(a) # Len(b) THEN Len(a) < Len(b)
    ELSE IF a = <<>> THEN FALSE
    ELSE IF a[Len(a)] # b[Len(b)] THEN a[Len(a)] < b[Len(b)]
    ELSE BigLess(SubSeq(a, 1, Len(a) - 1), SubSeq(b, 1, Len(b) - 1))

\* float(n) / int(n) of an integer n, as a count
Num(n) == [neg |-> n < 0, mag |-> BigOf(IF n < 0 THEN 0 - n ELSE n)]

\* x * y
NumMul(x, y) ==
    LET m == BigMul(x.mag, y.mag)
    IN  [neg |-> (m # <<>>) /\ (x.neg # y.neg), mag |-> m]

\* x < y
NumLess(x, y) ==
    IF x.neg /\ ~y.neg THEN TRUE
    ELSE IF ~x.neg /\ y.neg THEN FALSE
    ELSE IF x.neg THEN BigLess(y.mag, x.mag)
    ELSE BigLess(x.mag, y.mag)

\* max(x, y): y only when it is greater, as the builtin
NumMax(x, y) == IF NumLess(x, y) THEN y ELSE x

\* 10^12: a CPU count times seconds, in CostUnit-ths of a CPU-hour
CpuScale == [neg |-> FALSE, mag |-> <<0, 0, 0, 1>>]

---------------------------------------------------------------------------
(* calculate_sbatch_jobcost_per_queue *)

Queues == {"normal", "bigmem", "hugemem"}

\* Queue memory cost factors, in 1/10^8
NORMAL_QUEUE_MEMORY_FACTOR == 25770310

BIGMEM_QUEUE_MEMORY_FACTOR == 11049720

HUGEMEM_QUEUE_MEMORY_FACTOR == 1059603

\* calculate_cpu_hours(hours, cpus): cpus * hours
calculate_cpu_hours(hours, cpus) == NumMul(NumMul(Num(cpus), Num(hours)), CpuScale)

\* calculate_mem_hours(hours, mem_gb, queue_factor): mem_gb * hours * queue_factor
calculate_mem_hours(hours, mem_gb, queue_factor) ==
    NumMul(NumMul(Num(mem_gb), Num(hours)), Num(queue_factor))

\* the cost model with the charge taken as the smaller of the two figures
calculate_sbatch_jobcost_per_queue_min_charged(parsed) ==
    LET hours       == parsed.hours
        cpus        == parsed.cpus
        memory_gb   == parsed.memory_gb
        array_count == parsed.array_count
        per_task_cpu_hours == calculate_cpu_hours(hours, cpus)
        per_task_mem ==
            [q \in Queues |->
                CASE q = "normal"  -> calculate_mem_hours(hours, memory_gb, NORMAL_QUEUE_MEMORY_FACTOR)
                  [] q = "bigmem"  -> calculate_mem_hours(hours, memory_gb, BIGMEM_QUEUE_MEMORY_FACTOR)
                  [] q = "hugemem" -> calculate_mem_hours(hours, memory_gb, HUGEMEM_QUEUE_MEMORY_FACTOR)]
        per_task_charged ==
            [q \in Queues |->
                IF NumLess(per_task_cpu_hours, per_task_mem[q])
                THEN per_task_cpu_hours ELSE per_task_mem[q]]
    IN  [hours |-> hours, cpus |-> cpus, memory_gb |-> memory_gb, array_count |-> array_count,
         per_task |-> [cpu_hours |-> per_task_cpu_hours,
                       mem_hours |-> per_task_mem,
                       charged   |-> per_task_charged],
         total    |-> [cpu_hours |-> NumMul(per_task_cpu_hours, Num(array_count)),
                       mem_hours |-> [q \in Queues |-> NumMul(per_task_mem[q], Num(array_count))],
                       charged   |-> [q \in Queues |-> NumMul(per_task_charged[q], Num(array_count))]]]

\* calculate_sbatch_jobcost_per_queue(parsed_slurmargs); every cost figure is a
\* count of 1/(3600 * 10^12) CPU-hours
calculate_sbatch_jobcost_per_queue(parsed) ==
    LET hours       == parsed.hours
        cpus        == parsed.cpus
        memory_gb   == parsed.memory_gb
        array_count == parsed.array_count
        per_task_cpu_hours == calculate_cpu_hours(hours, cpus)
        per_task_mem ==
            [q \in Queues |->
                CASE q = "normal"  -> calculate_mem_hours(hours, memory_gb, NORMAL_QUEUE_MEMORY_FACTOR)
                  [] q = "bigmem"  -> calculate_mem_hours(hours, memory_gb, BIGMEM_QUEUE_MEMORY_FACTOR)
                  [] q = "hugemem" -> calculate_mem_hours(hours, memory_gb, HUGEMEM_QUEUE_MEMORY_FACTOR)]
        per_task_charged ==
            [q \in Queues |-> NumMax(per_task_cpu_hours, per_task_mem[q])]
    IN  [hours |-> hours, cpus |-> cpus, memory_gb |-> memory_gb, array_count |-> array_count,
         per_task |-> [cpu_hours |-> per_task_cpu_hours,
                       mem_hours |-> per_task_mem,
                       charged   |-> per_task_charged],
         total    |-> [cpu_hours |-> NumMul(per_task_cpu_hours, Num(array_count)),
                       mem_hours |-> [q \in Queues |-> NumMul(per_task_mem[q], Num(array_count))],
                       charged   |-> [q \in Queues |-> NumMul(per_task_charged[q], Num(array_count))]]]

---------------------------------------------------------------------------
(* The cost model on canonical resource records *)

MaxCpus == 4

MaxArrayCount == 3

\* walltimes, in seconds: half an hour, two hours, 1-02:03:04
HoursInputs == {1800, 7200, 93784}

\* memory per task, in 1/10000 GiB: none, 0.5, 10, 400 and 2048 GiB
MemoryInputs == {0, 5000, 100000, 4000000, 20480000}

InitCost ==
    /\ pc = "cost"
    /\ scriptlines = <<>>
    /\ slurmargs = None
    /\ parsed_slurmargs \in
          {Ok([hours |-> h, cpus |-> c, memory_gb |-> g, array_count |-> a]) :
              h \in HoursInputs, c \in 1..MaxCpus, g \in MemoryInputs, a \in 1..MaxArrayCount}
    /\ costs_per_queue = None
    /\ report = None
    /\ argument = None
    /\ result = None

\* costs_per_queue = calculate_sbatch_jobcost_per_queue(parsed_slurmargs)
Cost ==
    /\ pc = "cost"
    /\ costs_per_queue' = Ok(calculate_sbatch_jobcost_per_queue(parsed_slurmargs.val))
    /\ pc' = "print"
    /\ UNCHANGED <<scriptlines, slurmargs, parsed_slurmargs, report, argument, result>>

SpecCost == InitCost /\ [][Cost]_vars

\* the queue factors as the source writes them, times 10^8
FactorE8(q) ==
    CASE q = "normal" -> 25770310 [] q = "bigmem" -> 11049720 [] q = "hugemem" -> 1059603

\* x * n for a cost figure x and an integer n
Times(x, n) == NumMul(x, Num(n))

\* x is the larger of a and b
IsMaxOf(x, a, b) == x \in {a, b} /\ ~NumLess(x, a) /\ ~NumLess(x, b)

\* C1: for a canonical record the per-task figures are cpu_hours = cpus * hours,
\* mem_hours[q] = memory_gb * hours * factor[q] and charged[q] = max(cpu_hours,
\* mem_hours[q]); every total figure is the per-task figure times array_count,
\* so total charged[q] is the max of total cpu_hours and total mem_hours[q].
C1_CostModel ==
    (pc = "print" /\ IsOk(costs_per_queue)) =>
        LET r == parsed_slurmargs.val
            c == costs_per_queue.val
        IN  /\ c.per_task.cpu_hours = Times(Times(CpuScale, r.cpus), r.hours)
            /\ \A q \in Queues :
                  /\ c.per_task.mem_hours[q] = Times(Times(Num(FactorE8(q)), r.hours), r.memory_gb)
                  /\ IsMaxOf(c.per_task.charged[q], c.per_task.cpu_hours, c.per_task.mem_hours[q])
                  /\ c.total.mem_hours[q] = Times(c.per_task.mem_hours[q], r.array_count)
                  /\ c.total.charged[q] = Times(c.per_task.charged[q], r.array_count)
                  /\ IsMaxOf(c.total.charged[q], c.total.cpu_hours, c.total.mem_hours[q])
            /\ c.total.cpu_hours = Times(c.per_task.cpu_hours, r.array_count)

\* C1 witness: an array of three tasks charged by memory on the normal queue
\* and by CPU on the hugemem queue
C1_Witness ==
    /\ pc = "print" /\ IsOk(costs_per_queue)
    /\ parsed_slurmargs.val.array_count = 3
    /\ costs_per_queue.val.total.charged["normal"] = costs_per_queue.val.total.mem_hours["normal"]
    /\ costs_per_queue.val.total.charged["hugemem"] = costs_per_queue.val.total.cpu_hours
    /\ NumLess(costs_per_queue.val.total.cpu_hours, costs_per_queue.val.total.mem_hours["normal"])
    /\ NumLess(costs_per_queue.val.total.mem_hours["hugemem"], costs_per_queue.val.total.cpu_hours)

---------------------------------------------------------------------------
(* extract_slurmheader_arguments: SLURMHEADER_PATTERN.finditer over the text *)
(* of the script, then the alias table, the '#' check and the unquoting      *)

Letters == {UpperCase[k] : k \in 1..26} \cup {LowerCase[k] : k \in 1..26}

\* [A-Za-z0-9_-]
NameChars == Letters \cup Digits \cup {"_", "-"}

MARKER == <<"#", "S", "B", "A", "T", "C", "H">>

\* the first position from i on that holds no whitespace (Len + 1 when none): \s*
RECURSIVE SkipSpace(_, _)
SkipSpace(text, i) ==
    IF i <= Len(text) /\ IsSpace(text[i]) THEN SkipSpace(text, i + 1) ELSE i

\* the first position from i on that holds a newline (Len + 1 when none): [^\r\n]*
RECURSIVE LineEnd(_, _)
LineEnd(text, i) ==
    IF i <= Len(text) /\ text[i] # "\n" THEN LineEnd(text, i + 1) ELSE i

\* the first position from i on that holds no name character: [A-Za-z0-9_-]*
RECURSIVE NameEnd(_, _)
NameEnd(text, i) ==
    IF i <= Len(text) /\ text[i] \in NameChars THEN NameEnd(text, i + 1) ELSE i

\* ^ under re.MULTILINE
AtLineStart(text, i) == i = 1 \/ text[i - 1] = "\n"

\* the value alternatives at position e, just after the option name:
\* =(?=[^\r\n]*\S)[^\r\n]+ or \s+(?=[^\r\n]*\S)[^\r\n]+ , then $
ValueAt(text, e) ==
    IF e > Len(text) THEN NoMatch
    ELSE IF text[e] = "="
    THEN LET stop == LineEnd(text, e + 1)
         IN  IF \E k \in (e + 1)..(stop - 1) : ~IsSpace(text[k])
             THEN Ok([argvalue |-> SubSeq(text, e + 1, stop - 1), end |-> stop])
             ELSE NoMatch
    ELSE IF IsSpace(text[e])
    THEN LET v    == SkipSpace(text, e)
             stop == LineEnd(text, v)
         IN  IF v <= Len(text)
             THEN Ok([argvalue |-> SubSeq(text, v, stop - 1), end |-> stop])
             ELSE NoMatch
    ELSE NoMatch

\* SLURMHEADER_PATTERN matched from position i, a start of line
MatchAt(text, i) ==
    LET p == SkipSpace(text, i)
        a == p + Len(MARKER)
        r == SkipSpace(text, a)
        long  == /\ r + 2 <= Len(text)
                 /\ text[r] = "-" /\ text[r + 1] = "-"
                 /\ NameEnd(text, r + 2) > r + 2
        short == /\ r + 1 <= Len(text)
                 /\ text[r] = "-" /\ text[r + 1] \in Letters
        e     == IF long THEN NameEnd(text, r + 2) ELSE r + 2
        val   == ValueAt(text, e)
    IN  IF /\ a - 1 <= Len(text)
           /\ SubSeq(text, p, a - 1) = MARKER
           /\ r > a
           /\ (long \/ short)
           /\ IsOk(val)
        THEN Ok([slurmarg |-> IF long THEN SubSeq(text, r + 2, e - 1) ELSE <<text[r + 1]>>,
                 argvalue |-> val.val.argvalue,
                 end      |-> val.val.end])
        ELSE NoMatch

\* SLURMHEADER_PATTERN.finditer(scriptlines): the matches from position i on
RECURSIVE finditer(_, _)
finditer(text, i) ==
    IF i > Len(text) THEN <<>>
    ELSE IF AtLineStart(text, i) /\ IsOk(MatchAt(text, i))
    THEN <<MatchAt(text, i).val>> \o finditer(text, MatchAt(text, i).val.end)
    ELSE finditer(text, i + 1)

\* a sequence of characters as a string
RECURSIVE ToStr(_)
ToStr(s) == IF s = <<>> THEN "" ELSE Head(s) \o ToStr(Tail(s))

SLURMARG_CONVERSIONS ==
    ("c" :> "cpus-per-task") @@
    ("n" :> "ntasks") @@
    ("N" :> "nodes") @@
    ("t" :> "time") @@
    ("J" :> "job-name") @@
    ("o" :> "output") @@
    ("e" :> "error") @@
    ("A" :> "account") @@
    ("p" :> "partition") @@
    ("m" :> "mail-type") @@
    ("cpus-per-task" :> "cpus-per-task") @@
    ("ntasks" :> "ntasks") @@
    ("ntasks-per-node" :> "ntasks-per-node") @@
    ("tasks-per-node" :> "ntasks-per-node") @@
    ("nodes" :> "nodes") @@
    ("time" :> "time") @@
    ("time-min" :> "time-min") @@
    ("job-name" :> "job-name") @@
    ("output" :> "output") @@
    ("error" :> "error") @@
    ("account" :> "account") @@
    ("partition" :> "partition") @@
    ("nodelist" :> "nodelist") @@
    ("qos" :> "qos") @@
    ("mail-type" :> "mail-type") @@
    ("mail-user" :> "mail-user") @@
    ("mem" :> "mem") @@
    ("mem-per-cpu" :> "mem-per-cpu") @@
    ("array" :> "array")

\* SLURMARG_CONVERSIONS.get(slurmarg, slurmarg)
Canonical(slurmarg) ==
    IF ToStr(slurmarg) \in DOMAIN SLURMARG_CONVERSIONS
    THEN SLURMARG_CONVERSIONS[ToStr(slurmarg)]
    ELSE ToStr(slurmarg)

\* the value of a header line as it is stored: stripped, and unquoted when it
\* is wrapped in one pair of matching quotes
Unquoted(argvalue) ==
    IF /\ Len(argvalue) >= 2
       /\ argvalue[1] = argvalue[Len(argvalue)]
       /\ argvalue[1] \in {"'", "\""}
    THEN Strip(SubSeq(argvalue, 2, Len(argvalue) - 1))
    ELSE argvalue

\* d[k] = v
DictSet(d, k, v) == [x \in DOMAIN d \cup {k} |-> IF x = k THEN v ELSE d[x]]

\* d.get(k)
DictGet(d, k) == IF k \in DOMAIN d THEN Ok(d[k]) ELSE None

EmptyDict == [x \in {} |-> <<>>]

\* the for loop over the header lines with the '#' check made only on a value
\* that is not quoted
RECURSIVE HeaderLoop_quoted_hash_allowed(_, _)
HeaderLoop_quoted_hash_allowed(headerlines, args) ==
    IF headerlines = <<>> THEN Ok(args)
    ELSE LET line     == Head(headerlines)
             argvalue == Strip(line.argvalue)
         IN  IF Find(Unquoted(argvalue), "#") # 0 /\ Unquoted(argvalue) = argvalue
             THEN Raise("ValueError: Illegal '#' in value")
             ELSE HeaderLoop_quoted_hash_allowed(Tail(headerlines),
                      DictSet(args, Canonical(line.slurmarg), Unquoted(argvalue)))

\* the for loop over the header lines: the mapping, or the ValueError raised
RECURSIVE HeaderLoop(_, _)
HeaderLoop(headerlines, args) ==
    IF headerlines = <<>> THEN Ok(args)
    ELSE LET line     == Head(headerlines)
             argvalue == Strip(line.argvalue)
         IN  IF Find(argvalue, "#") # 0
             THEN Raise("ValueError: Illegal '#' in value")
             ELSE HeaderLoop(Tail(headerlines),
                      DictSet(args, Canonical(line.slurmarg), Unquoted(argvalue)))

\* extract_slurmheader_arguments, on the text read from slurmscript_path
extract_slurmheader_arguments(text) == HeaderLoop(finditer(text, 1), EmptyDict)

---------------------------------------------------------------------------
(* parse_slurmargs: the resources of one task and the size of the array *)

\* the resolution of the task and CPU counts
ResolveCpus(args) ==
    LET ntasks         == parse_argument_to_int(DictGet(args, "ntasks"))
        tasks_per_node == parse_argument_to_int(DictGet(args, "tasks-per-node"))
        nodes          == parse_argument_to_int(DictGet(args, "nodes"))
        cpus_per_task  == parse_argument_to_int(DictGet(args, "cpus-per-task"))
        tasks == IF ntasks # None THEN ntasks.val
                 ELSE IF tasks_per_node = None \/ nodes = None THEN 1
                 ELSE tasks_per_node.val * nodes.val
    IN  tasks * (IF cpus_per_task = None THEN 1 ELSE cpus_per_task.val)

\* the body of parse_slurmargs from line 283 on, given what the nested parsers
\* returned: the record, or the ValueError raised
NormalizedRecord(hours, cpus, memory_gigabytes, mem_per_cpu_bytes, array_count) ==
    IF hours = None
    THEN Raise("ValueError: Invalid Slurm script: Time cannot be unspecified.")
    ELSE IF memory_gigabytes.tag = "raise" THEN memory_gigabytes
    ELSE IF memory_gigabytes # None
    THEN Ok([hours |-> hours.val, cpus |-> cpus,
             memory_gb |-> memory_gigabytes.val, array_count |-> array_count])
    ELSE IF mem_per_cpu_bytes.tag = "raise" THEN mem_per_cpu_bytes
    ELSE IF mem_per_cpu_bytes = None
    THEN Raise("ValueError: Invalid Slurm script: Memory cannot be unspecified.")
    ELSE Ok([hours |-> hours.val, cpus |-> cpus,
             memory_gb |-> mem_per_cpu_bytes.val * cpus, array_count |-> array_count])

\* an hour for a time that cannot be read
DefaultedHours(hours) == IF hours = None THEN Ok(3600) ELSE hours

\* parse_slurmargs with one hour taken for a time that cannot be read
parse_slurmargs_default_hours(args) ==
    NormalizedRecord(DefaultedHours(parse_time_to_hours(DictGet(args, "time"))),
                     ResolveCpus(args),
                     parse_mem_to_gigabytes(DictGet(args, "mem")),
                     parse_mem_to_gigabytes(DictGet(args, "mem-per-cpu")),
                     parse_array_count(DictGet(args, "array")).val)

\* parse_slurmargs(slurmargs)
parse_slurmargs(args) ==
    NormalizedRecord(parse_time_to_hours(DictGet(args, "time")),
                     ResolveCpus(args),
                     parse_mem_to_gigabytes(DictGet(args, "mem")),
                     parse_mem_to_gigabytes(DictGet(args, "mem-per-cpu")),
                     parse_array_count(DictGet(args, "array")).val)

---------------------------------------------------------------------------
(* print_cost_details: the figures the report is built on *)

QueueOrder == <<"normal", "bigmem", "hugemem">>

\* the threshold of __main__, 10000 CPU-hours, in the unit of the cost figures
THRESHOLD == NumMul(NumMul(Num(10000), Num(3600)), CpuScale)

\* min(charged, key = charged.get): the first queue, in the order of the
\* dict, that no queue is cheaper than
MinKey(charged) ==
    QueueOrder[CHOOSE i \in 1..3 :
        /\ \A j \in 1..3 : ~NumLess(charged[QueueOrder[j]], charged[QueueOrder[i]])
        /\ \A j \in 1..(i - 1) : NumLess(charged[QueueOrder[i]], charged[QueueOrder[j]])]

\* max(charged, key = charged.get)
MaxKey(charged) ==
    QueueOrder[CHOOSE i \in 1..3 :
        /\ \A j \in 1..3 : ~NumLess(charged[QueueOrder[i]], charged[QueueOrder[j]])
        /\ \A j \in 1..(i - 1) : NumLess(charged[QueueOrder[j]], charged[QueueOrder[i]])]

\* print_cost_details with the costs of one task reported for an array as well
print_cost_details_per_task_costs(cost_details, threshold) ==
    LET charged_task         == cost_details.per_task.charged
        cheapest_queue       == MinKey(charged_task)
        most_expensive_queue == MaxKey(charged_task)
    IN  [cheapest_queue       |-> cheapest_queue,
         cheapest_cost        |-> charged_task[cheapest_queue],
         most_expensive_queue |-> most_expensive_queue,
         most_expensive_cost  |-> charged_task[most_expensive_queue],
         warning              |-> ~NumLess(charged_task[most_expensive_queue], threshold)]

\* the queues and costs print_cost_details reports, and whether it warns
print_cost_details(cost_details, threshold) ==
    LET charged_task         == cost_details.per_task.charged
        charged_total        == cost_details.total.charged
        cheapest_queue       == MinKey(charged_task)
        most_expensive_queue == MaxKey(charged_task)
        cheapest_cost        == IF cost_details.array_count > 1
                                THEN charged_total[cheapest_queue]
                                ELSE charged_task[cheapest_queue]
        most_expensive_cost  == IF cost_details.array_count > 1
                                THEN charged_total[most_expensive_queue]
                                ELSE charged_task[most_expensive_queue]
    IN  [cheapest_queue       |-> cheapest_queue,
         cheapest_cost        |-> cheapest_cost,
         most_expensive_queue |-> most_expensive_queue,
         most_expensive_cost  |-> most_expensive_cost,
         warning              |-> ~NumLess(most_expensive_cost, threshold)]

---------------------------------------------------------------------------
(* extract_slurmheader_arguments on scripts of a few lines *)

MaxLines == 3

\* the lines the scripts are made of:
\*   a quoted value that holds a '#'
\*   the same option with a clean value
\*   a trailing comment, on the short alias
\*   an option with no value on its line
\*   a command
\*   the marker alone
\*   a blank line
\*   leading whitespace, a double-quoted value after a space
\*   a value of whitespace only
\*   a plain directive
\*   a comment that is no directive
ExtractLines ==
    {<<"#", "S", "B", "A", "T", "C", "H", " ", "-", "-", "j", "o", "b", "-", "n", "a", "m", "e", "=", "'", "a", "#", "b", "'", "\n">>,
     <<"#", "S", "B", "A", "T", "C", "H", " ", "-", "-", "j", "o", "b", "-", "n", "a", "m", "e", "=", "o", "k", "\n">>,
     <<"#", "S", "B", "A", "T", "C", "H", " ", "-", "J", " ", "x", " ", "#", "y", "\n">>,
     <<"#", "S", "B", "A", "T", "C", "H", " ", "-", "-", "t", "i", "m", "e", "\n">>,
     <<"e", "c", "h", "o", " ", "h", "i", "\n">>,
     <<"#", "S", "B", "A", "T", "C", "H", "\n">>,
     <<"\n">>,
     <<" ", " ", "#", "S", "B", "A", "T", "C", "H", " ", "-", "-", "m", "e", "m", " ", "\"", "1", "G", "\"", " ", " ", "\n">>,
     <<"#", "S", "B", "A", "T", "C", "H", " ", "-", "-", "m", "e", "m", "=", " ", "\n">>,
     <<"#", "S", "B", "A", "T", "C", "H", " ", "-", "-", "t", "i", "m", "e", "=", "1", "0", "\n">>,
     <<"#", " ", "S", "B", "A", "T", "C", "H", " ", "-", "-", "m", "e", "m", "=", "1", "G", "\n">>}

RECURSIVE Concat(_)
Concat(ls) == IF ls = <<>> THEN <<>> ELSE Head(ls) \o Concat(Tail(ls))

InitExtract ==
    /\ pc = "extract"
    /\ scriptlines \in {Concat(ls) : ls \in Strings(ExtractLines, MaxLines)}
    /\ slurmargs = None
    /\ parsed_slurmargs = None
    /\ costs_per_queue = None
    /\ report = None
    /\ argument = None
    /\ result = None

\* slurmargs = extract_slurmheader_arguments(slurmscript_path); an exception
\* that is raised ends the run
Extract ==
    /\ pc = "extract"
    /\ LET r == extract_slurmheader_arguments(scriptlines)
       IN  IF IsOk(r)
           THEN slurmargs' = r /\ pc' = "normalize" /\ UNCHANGED result
           ELSE result' = r /\ pc' = "error" /\ UNCHANGED slurmargs
    /\ UNCHANGED <<scriptlines, parsed_slurmargs, costs_per_queue, report, argument>>

SpecExtract == InitExtract /\ [][Extract]_vars

\* the lines of a text, without their newlines
LinesOf(text) == Split(text, "\n")

\* the values captured from a text: by the pattern run over the whole text,
\* and by the pattern on each line read on its own
CapturedValues(text) ==
    {finditer(text, 1)[i].argvalue : i \in 1..Len(finditer(text, 1))}
    \cup {MatchAt(LinesOf(text)[i], 1).val.argvalue :
             i \in {j \in 1..Len(LinesOf(text)) : IsOk(MatchAt(LinesOf(text)[j], 1))}}

HasHash(value) == \E k \in 1..Len(value) : value[k] = "#"

\* C10: when the captured value of a directive line of the script holds a '#',
\* extraction raises and leaves no mapping, also when the '#' is inside quotes
\* and when a later line gives the same option a clean value.
C10_HashRaises ==
    (pc # "extract" /\ \E v \in CapturedValues(scriptlines) : HasHash(v)) =>
        /\ pc = "error"
        /\ result.tag = "raise"
        /\ slurmargs = None

\* C10 witness: extraction raised on a script whose first directive has a
\* quoted value with a '#' and whose later directive sets the same option
\* to a value without one
C10_Witness ==
    /\ pc = "error" /\ result.tag = "raise"
    /\ LET ms == finditer(scriptlines, 1)
       IN  \E i, j \in 1..Len(ms) :
              /\ i = 1 /\ i < j
              /\ ms[i].slurmarg = ms[j].slurmarg
              /\ HasHash(ms[i].argvalue)
              /\ Head(ms[i].argvalue) = "'" /\ ms[i].argvalue[Len(ms[i].argvalue)] = "'"
              /\ ~HasHash(ms[j].argvalue)

---------------------------------------------------------------------------
(* __main__: extract, normalize, cost, print, on scripts put together from  *)
(* one choice for every directive                                           *)

\* the walltime: absent, 1-02:03:04, 90 minutes on the short alias, unreadable
TimeLines ==
    {<<>>,
     <<"#", "S", "B", "A", "T", "C", "H", " ", "-", "-", "t", "i", "m", "e", "=", "1", "-", "0", "2", ":", "0", "3", ":", "0", "4", "\n">>,
     <<"#", "S", "B", "A", "T", "C", "H", " ", "-", "t", " ", "9", "0", "\n">>,
     <<"#", "S", "B", "A", "T", "C", "H", " ", "-", "-", "t", "i", "m", "e", "=", "s", "o", "o", "n", "\n">>}

\* the task count
NtasksLines ==
    {<<>>,
     <<"#", "S", "B", "A", "T", "C", "H", " ", "-", "n", " ", "2", "\n">>}

\* the tasks of a node, under both names of the option
TasksPerNodeLines ==
    {<<>>,
     <<"#", "S", "B", "A", "T", "C", "H", " ", "-", "-", "t", "a", "s", "k", "s", "-", "p", "e", "r", "-", "n", "o", "d", "e", "=", "4", "\n">>,
     <<"#", "S", "B", "A", "T", "C", "H", " ", "-", "-", "n", "t", "a", "s", "k", "s", "-", "p", "e", "r", "-", "n", "o", "d", "e", "=", "4", "\n">>}

\* the nodes
NodesLines ==
    {<<>>,
     <<"#", "S", "B", "A", "T", "C", "H", " ", "-", "-", "n", "o", "d", "e", "s", "=", "3", "\n">>}

\* the CPUs of a task: absent, 2, no integer
CpusPerTaskLines ==
    {<<>>,
     <<"#", "S", "B", "A", "T", "C", "H", " ", "-", "c", " ", "2", "\n">>,
     <<"#", "S", "B", "A", "T", "C", "H", " ", "-", "-", "c", "p", "u", "s", "-", "p", "e", "r", "-", "t", "a", "s", "k", "=", "m", "a", "n", "y", "\n">>}

\* the memory of a task: absent, 1G, no unit, a decimal amount
MemLines ==
    {<<>>,
     <<"#", "S", "B", "A", "T", "C", "H", " ", "-", "-", "m", "e", "m", "=", "1", "G", "\n">>,
     <<"#", "S", "B", "A", "T", "C", "H", " ", "-", "-", "m", "e", "m", "=", "1", "6", "0", "0", "0", "\n">>,
     <<"#", "S", "B", "A", "T", "C", "H", " ", "-", "-", "m", "e", "m", "=", "1", ".", "5", "G", "\n">>}

\* the memory of a CPU: absent, 2G, unreadable
MemPerCpuLines ==
    {<<>>,
     <<"#", "S", "B", "A", "T", "C", "H", " ", "-", "-", "m", "e", "m", "-", "p", "e", "r", "-", "c", "p", "u", "=", "2", "G", "\n">>,
     <<"#", "S", "B", "A", "T", "C", "H", " ", "-", "-", "m", "e", "m", "-", "p", "e", "r", "-", "c", "p", "u", "=", "l", "o", "t", "s", "\n">>}

\* the array: absent, four tasks, a thousand tasks
ArrayLines ==
    {<<>>,
     <<"#", "S", "B", "A", "T", "C", "H", " ", "-", "-", "a", "r", "r", "a", "y", "=", "0", "-", "3", "\n">>,
     <<"#", "S", "B", "A", "T", "C", "H", " ", "-", "-", "a", "r", "r", "a", "y", "=", "0", "-", "9", "9", "9", "\n">>}

\* the name of the job: absent, or with a '#' in it
JobNameLines ==
    {<<>>,
     <<"#", "S", "B", "A", "T", "C", "H", " ", "-", "J", " ", "'", "r", "u", "n", "#", "1", "'", "\n">>}

SHEBANG == <<"#", "!", "/", "b", "i", "n", "/", "b", "a", "s", "h", "\n">>

COMMAND == <<"s", "r", "u", "n", " ", ".", "/", "r", "u", "n", "\n">>

Scripts ==
    {SHEBANG \o j \o t \o n \o p \o d \o c \o m \o q \o a \o COMMAND :
        j \in JobNameLines, t \in TimeLines, n \in NtasksLines,
        p \in TasksPerNodeLines, d \in NodesLines, c \in CpusPerTaskLines,
        m \in MemLines, q \in MemPerCpuLines, a \in ArrayLines}

Init ==
    /\ pc = "extract"
    /\ scriptlines \in Scripts
    /\ slurmargs = None
    /\ parsed_slurmargs = None
    /\ costs_per_queue = None
    /\ report = None
    /\ argument = None
    /\ result = None

\* parsed_slurmargs = parse_slurmargs(slurmargs); an exception that is raised
\* ends the run
Normalize ==
    /\ pc = "normalize"
    /\ LET r == parse_slurmargs(slurmargs.val)
       IN  IF IsOk(r)
           THEN parsed_slurmargs' = r /\ pc' = "cost" /\ UNCHANGED result
           ELSE result' = r /\ pc' = "error" /\ UNCHANGED parsed_slurmargs
    /\ UNCHANGED <<scriptlines, slurmargs, costs_per_queue, report, argument>>

\* print_cost_details(costs_per_queue, threshold = 10000)
PrintReport ==
    /\ pc = "print"
    /\ report' = Ok(print_cost_details(costs_per_queue.val, THRESHOLD))
    /\ pc' = "done"
    /\ UNCHANGED <<scriptlines, slurmargs, parsed_slurmargs, costs_per_queue, argument, result>>

Next == Extract \/ Normalize \/ Cost \/ PrintReport

Spec == Init /\ [][Next]_vars

\* the value the script gives an option, read from its directive lines as
\* they are written: the last line that names the option, by any of `names`
Directive(text, names) ==
    LET ms   == finditer(text, 1)
        hits == {i \in 1..Len(ms) : ToStr(ms[i].slurmarg) \in names}
    IN  IF hits = {} THEN None
        ELSE Ok(Unquoted(Strip(ms[CHOOSE i \in hits : \A j \in hits : j <= i].argvalue)))

TimeDirective == Directive(scriptlines, {"time", "t"})

MemDirective == Directive(scriptlines, {"mem"})

MemPerCpuDirective == Directive(scriptlines, {"mem-per-cpu"})

\* the time directive is there and its value is of one of the four forms
TimeReadable ==
    /\ TimeDirective # None
    /\ FormsValue(Strip(TimeDirective.val), Len(TimeDirective.val)) # None

\* normalization has been run on the mapping extracted from the script
Normalized == pc \in {"cost", "print", "done"} \/ (pc = "error" /\ slurmargs # None)

\* C2: normalization ends in an error and returns no record when the time
\* directive is absent, when its value is of none of the time forms, and when
\* neither mem nor mem-per-cpu yields a memory value; no cost is computed then.
C2_FatalWithoutTimeOrMemory ==
    (/\ Normalized
     /\ \/ ~TimeReadable
        \/ /\ ~IsOk(parse_mem_to_gigabytes(MemDirective))
           /\ ~IsOk(parse_mem_to_gigabytes(MemPerCpuDirective))) =>
        /\ pc = "error"
        /\ result.tag = "raise"
        /\ parsed_slurmargs = None
        /\ costs_per_queue = None
        /\ report = None

\* C2 witness: normalization failed on a script whose time directive is there
\* with a value of no time form, its mem directive being readable
C2_Witness ==
    /\ pc = "error" /\ slurmargs # None /\ parsed_slurmargs = None
    /\ TimeDirective # None /\ ~TimeReadable
    /\ IsOk(parse_mem_to_gigabytes(MemDirective))

\* C6 as stated: when mem yields a value, memory_gb is that value whatever
\* mem-per-cpu says; when mem is absent or yields no value and mem-per-cpu
\* yields v, normalization succeeds with memory_gb = v * cpus.
C6_AsStated ==
    (Normalized /\ TimeReadable) =>
        LET mem         == parse_mem_to_gigabytes(MemDirective)
            mem_per_cpu == parse_mem_to_gigabytes(MemPerCpuDirective)
        IN  /\ IsOk(mem) =>
                  /\ pc # "error"
                  /\ parsed_slurmargs.val.memory_gb = mem.val
            /\ (~IsOk(mem) /\ IsOk(mem_per_cpu)) =>
                  /\ pc # "error"
                  /\ parsed_slurmargs.val.memory_gb = mem_per_cpu.val * parsed_slurmargs.val.cpus

\* an option of the script as an integer, when it is there and is one
IntDirective(names) ==
    LET d == Directive(scriptlines, names)
    IN  IF d # None /\ d.val # <<>> /\ IsOk(int(d.val)) THEN int(d.val) ELSE None

\* C7 as stated: for a script with no ntasks directive and integer
\* tasks-per-node = a and nodes = b, the record's cpus is a * b * cpus_per_task,
\* cpus_per_task being 1 when it is absent or no integer.
C7_AsStated ==
    (/\ pc \in {"cost", "print", "done"}
     /\ Directive(scriptlines, {"ntasks", "n"}) = None
     /\ IntDirective({"tasks-per-node"}) # None
     /\ IntDirective({"nodes", "N"}) # None) =>
        LET a == IntDirective({"tasks-per-node"}).val
            b == IntDirective({"nodes", "N"}).val
            c == IntDirective({"cpus-per-task", "c"})
        IN  parsed_slurmargs.val.cpus = a * b * (IF c = None THEN 1 ELSE c.val)

\* a line that is by itself a complete directive line: marker, whitespace,
\* option name, then its value on that same line
CompleteDirective(line) == IsOk(MatchAt(line, 1))

\* the lines of a text that end with a newline, and what follows the last
\* newline when it is not empty
TextLines(text) ==
    LET ls == LinesOf(text)
    IN  IF ls[Len(ls)] = <<>> THEN SubSeq(ls, 1, Len(ls) - 1) ELSE ls

\* a text with every line that is not a complete directive line removed
RECURSIVE DirectivesOnly(_)
DirectivesOnly(ls) ==
    IF ls = <<>> THEN <<>>
    ELSE (IF CompleteDirective(Head(ls)) THEN Head(ls) \o <<"\n">> ELSE <<>>)
            \o DirectivesOnly(Tail(ls))

\* C11 as stated: a line that is not by itself a complete directive line never
\* makes extraction fail and never adds or changes an entry: the script gives
\* the mapping it gives with every such line removed.
C11_AsStated ==
    (pc # "extract"
      /\ IsOk(extract_slurmheader_arguments(DirectivesOnly(TextLines(scriptlines))))) =>
        /\ pc # "error"
        /\ slurmargs = extract_slurmheader_arguments(DirectivesOnly(TextLines(scriptlines)))

---------------------------------------------------------------------------
(* parse_slurmargs on mappings of directive values *)

\* the walltime: absent, no minutes, 90 minutes, 0:00, a day
TimeValues ==
    {None,
     Ok(<<"0">>),
     Ok(<<"9", "0">>),
     Ok(<<"0", ":", "0", "0">>),
     Ok(<<"1", "-", "0", "0", ":", "0", "0", ":", "0", "0">>)}

\* the task count: absent, none, negative, two
NtasksValues ==
    {None,
     Ok(<<"0">>),
     Ok(<<"-", "2">>),
     Ok(<<"2">>)}

\* the tasks of a node
TasksPerNodeValues ==
    {None,
     Ok(<<"4">>)}

\* the nodes: absent, three, negative
NodesValues ==
    {None,
     Ok(<<"3">>),
     Ok(<<"-", "1">>)}

\* the CPUs of a task: absent, none, two
CpusPerTaskValues ==
    {None,
     Ok(<<"0">>),
     Ok(<<"2">>)}

\* the memory of a task: absent, 1G, nothing
MemValues ==
    {None,
     Ok(<<"1", "G">>),
     Ok(<<"0", "G">>)}

\* the memory of a CPU
MemPerCpuValues ==
    {None,
     Ok(<<"2", "G">>)}

\* the array: absent, four tasks, a range that runs backwards, no item
ArrayValues ==
    {None,
     Ok(<<"0", "-", "3">>),
     Ok(<<"5", "-", "1">>),
     Ok(<<",">>)}

\* the dict of the options that are there
DictOf(choices) ==
    [k \in {x \in DOMAIN choices : choices[x] # None} |-> choices[k].val]

Mappings ==
    {DictOf(("time" :> t) @@ ("ntasks" :> n) @@ ("tasks-per-node" :> p) @@ ("nodes" :> d)
            @@ ("cpus-per-task" :> c) @@ ("mem" :> m) @@ ("mem-per-cpu" :> q) @@ ("array" :> a)) :
        t \in TimeValues, n \in NtasksValues, p \in TasksPerNodeValues, d \in NodesValues,
        c \in CpusPerTaskValues, m \in MemValues, q \in MemPerCpuValues, a \in ArrayValues}

InitNormalize ==
    /\ pc = "normalize"
    /\ scriptlines = <<>>
    /\ slurmargs \in {Ok(args) : args \in Mappings}
    /\ parsed_slurmargs = None
    /\ costs_per_queue = None
    /\ report = None
    /\ argument = None
    /\ result = None

SpecNormalize == InitNormalize /\ [][Normalize]_vars

\* C12 as stated: every record that parse_slurmargs returns has hours > 0,
\* cpus >= 1, memory_gb >= 0 and array_count >= 1.
C12_AsStated ==
    (pc = "cost" /\ IsOk(parsed_slurmargs)) =>
        /\ parsed_slurmargs.val.hours > 0
        /\ parsed_slurmargs.val.cpus >= 1
        /\ parsed_slurmargs.val.memory_gb >= 0
        /\ parsed_slurmargs.val.array_count >= 1

---------------------------------------------------------------------------
(* The report on the costs of canonical resource records *)

\* walltimes, in seconds: half an hour, ten hours, 1-02:03:04
ReportHours == {1800, 36000, 93784}

\* array sizes: no array, two tasks, and arrays that reach the threshold
ReportArrayCounts == {1, 2, 250, 1000}

InitReport ==
    /\ pc = "cost"
    /\ scriptlines = <<>>
    /\ slurmargs = None
    /\ parsed_slurmargs \in
          {Ok([hours |-> h, cpus |-> c, memory_gb |-> g, array_count |-> a]) :
              h \in ReportHours, c \in 1..MaxCpus, g \in MemoryInputs, a \in ReportArrayCounts}
    /\ costs_per_queue = None
    /\ report = None
    /\ argument = None
    /\ result = None

SpecReport == InitReport /\ [][Cost \/ PrintReport]_vars

\* the charged costs the report is about: of one task, or of the whole array
\* when it has more than one task
Basis(c) == IF c.array_count > 1 THEN c.total.charged ELSE c.per_task.charged

\* 10000 CPU-hours as a cost figure
TenThousandCpuHours == Times(Times(CpuScale, 3600), 10000)

\* C13: the queue reported as cheapest has a charged cost no greater than that
\* of the other queues, per task when array_count is 1 and on the array total
\* when array_count > 1; the cheapest cost reported is that queue's charged
\* figure on the same basis; the warning is raised exactly when the largest
\* charged cost on that basis is at least the threshold.
C13_CheapestAndWarning ==
    (pc = "done" /\ IsOk(report)) =>
        LET basis == Basis(costs_per_queue.val)
            r     == report.val
        IN  /\ \A q \in Queues : ~NumLess(basis[q], basis[r.cheapest_queue])
            /\ r.cheapest_cost = basis[r.cheapest_queue]
            /\ r.warning <=> \E q \in Queues : ~NumLess(basis[q], TenThousandCpuHours)

\* C13 witness: the report of an array on which hugemem is cheapest, cheaper
\* than normal, and whose dearest queue is at the threshold or above
C13_Witness ==
    /\ pc = "done" /\ IsOk(report)
    /\ costs_per_queue.val.array_count > 1
    /\ report.val.cheapest_queue = "hugemem"
    /\ NumLess(costs_per_queue.val.total.charged["hugemem"],
               costs_per_queue.val.total.charged["normal"])
    /\ report.val.warning

====
